---- MODULE Spec2Model ----
(***************************************************************************)
(* Model of force-git-resolution.py: force_git_resolution() deletes the    *)
(* lock files under .git, then runs five git commands and prints a         *)
(* transcript.  The filesystem at the start, the paths the operating      *)
(* system refuses to delete and the outcome of every external command are *)
(* inputs of the environment.  The git commands are external programs:    *)
(* what they do to the repository is not part of the script and is not    *)
(* modelled.                                                               *)
(*                                                                         *)
(* A path is a record [dir, stem, ext]: '.git/refs/heads/main.lock' is     *)
(* dir <<".git","refs","heads">>, stem "main", ext "lock"; a name without  *)
(* a suffix has ext "".                                                    *)
(***************************************************************************)
EXTENDS Integers, Sequences, FiniteSets

VARIABLES
  files,        \* the paths that exist now
  files0,       \* the paths that existed when the routine started
  undeletable,  \* the paths whose unlink / os.remove raises
  pc,           \* the position in force_git_resolution
  lock_files,   \* the snapshot list(git_dir.rglob('*.lock'))
  i,            \* the position of the running for loop
  out,          \* standard output: the lines printed so far
  fsops,        \* the filesystem calls made so far, with their results
  invoked,      \* the subprocess.run calls made so far, with their results
  exit_code     \* the exit status of the process, -1 while it runs

vars == <<files, files0, undeletable, pc, lock_files, i, out, fsops, invoked, exit_code>>

\* ------------------------------------------------------------------ bounds
\* Largest number of paths present in the working directory at start.
MaxPresent == 2
\* Largest number of present paths the operating system refuses to delete
\* (no permission, a directory, a file held open).
MaxUndeletable == 1
\* Largest number of paths present at start in the runs checked for
\* termination.
MaxPresentLive == 1

\* ------------------------------------------------------- program constants
Timeout == 30

Path(d, s, e) == [dir |-> d, stem |-> s, ext |-> e]

git_dir == <<".git">>

specific_locks ==
  << Path(<<".git">>, "index", "lock"),
     Path(<<".git">>, "HEAD", "lock"),
     Path(<<".git">>, "config", "lock"),
     Path(<<".git", "refs", "heads">>, "main", "lock") >>

commands ==
  << <<"git", "reset", "--hard", "HEAD">>,
     <<"git", "clean", "-fd">>,
     <<"git", "fetch", "--all">>,
     <<"git", "reset", "--hard", "origin/main">>,
     <<"git", "status">> >>

\* --------------------------------------------------------- the environment
\* Paths the working directory may hold: the four well-known locks, the lock
\* of another branch, the index itself (no .lock suffix) and a lock file of
\* the work tree (outside .git).
Universe ==
  { specific_locks[k] : k \in 1..Len(specific_locks) } \cup
  { Path(<<".git", "refs", "heads">>, "dev", "lock"),
    Path(<<".git">>, "index", ""),
    Path(<<>>, "yarn", "lock") }

ReturnCodes == {0, 1}
Durations == {Timeout - 1, Timeout + 1}

NoPath == Path(<<>>, "", "")
NoCmd == <<>>

\* ------------------------------------------------------------------ helpers
Range(s) == { s[k] : k \in 1..Len(s) }

Perms(S) ==
  { s \in [1..Cardinality(S) -> S] : \A a, b \in 1..Cardinality(S) : s[a] = s[b] => a = b }

IsUnder(p, d) ==
  /\ Len(p.dir) >= Len(d)
  /\ SubSeq(p.dir, 1, Len(d)) = d

\* fnmatch of a file name against '*.lock'
MatchesLock(p) == p.ext = "lock"

\* (faulty variant: glob instead of rglob, direct children only)
GitDirGlob(fs) == { p \in fs : p.dir = git_dir /\ MatchesLock(p) }
\* Path('.git').rglob('*.lock')
GitDirRglob(fs) == { p \in fs : IsUnder(p, git_dir) /\ MatchesLock(p) }

\* os.path.exists (faulty variant: the test is left out)
PathAlwaysExists(fs, p) == TRUE
PathExists(fs, p) == p \in fs

\* the filesystem after a successful unlink(2) of p (faulty variant: the
\* file is left in place)
DeletedDryRun(fs, p) == fs
Deleted(fs, p) == fs \ {p}

\* the index of the lock file the first loop visits after lock_files[k]: the
\* try/except is inside the loop body (faulty variant: it is around the loop)
NextLockStopOnError(k, ok, n) == IF ok THEN k + 1 ELSE n + 1
NextLock(k, ok, n) == k + 1

\* unlink(2) of p succeeds: p is there (FileNotFoundError otherwise) and the
\* operating system allows it (PermissionError, IsADirectoryError otherwise)
UnlinkOk(fs, locked, p) == p \in fs /\ p \notin locked

Line(kind, p, c, t) == [kind |-> kind, path |-> p, cmd |-> c, text |-> t]

\* the lines the first loop prints for one lock file (faulty variant: a
\* removal is not reported)
UnlinkReportQuiet(p, ok) ==
  IF ok THEN <<>> ELSE <<Line("could_not_remove", p, NoCmd, <<>>)>>
UnlinkReport(p, ok) ==
  IF ok THEN <<Line("removed_lock_file", p, NoCmd, <<>>)>>
        ELSE <<Line("could_not_remove", p, NoCmd, <<>>)>>

\* --------------------------------------------------------- command runner
\* subprocess.run(cmd, capture_output=True, text=True, timeout=30)
Run(cmd, launched, duration, rc) ==
  IF ~launched
    THEN [cmd |-> cmd, kind |-> "Exception", duration |-> 0, returncode |-> -1,
          stdout |-> <<>>, stderr |-> <<>>]
  ELSE IF duration > Timeout
    THEN [cmd |-> cmd, kind |-> "TimeoutExpired", duration |-> duration,
          returncode |-> -1, stdout |-> <<>>, stderr |-> <<>>]
  ELSE [cmd |-> cmd, kind |-> "completed", duration |-> duration, returncode |-> rc,
        stdout |-> <<"stdout of", cmd>>, stderr |-> <<"stderr of", cmd>>]

\* cmd[-1] == 'status' (faulty variant: the test is left out)
IsAnyCmd(cmd) == TRUE
IsStatus(cmd) == cmd[Len(cmd)] = "status"

\* the except clause that handles an exception raised by subprocess.run:
\* TimeoutExpired first, then Exception (faulty variants: the generic clause
\* comes first; there is no generic clause and the exception propagates)
RunHandlerGenericFirst(kind) == "error"
RunHandlerNoGeneric(kind) == IF kind = "TimeoutExpired" THEN "timeout" ELSE "propagate"
RunHandler(kind) == IF kind = "TimeoutExpired" THEN "timeout" ELSE "error"

\* the lines printed for a completed command (faulty variant: the exit code
\* is not looked at)
ReportIgnoringExitCode(r) ==
  <<Line("ok", NoPath, r.cmd, <<>>)>> \o
  (IF IsStatus(r.cmd) THEN <<Line("stdout", NoPath, r.cmd, r.stdout)>> ELSE <<>>)
Report(r) ==
  IF r.returncode = 0
    THEN <<Line("ok", NoPath, r.cmd, <<>>)>> \o
         (IF IsStatus(r.cmd) THEN <<Line("stdout", NoPath, r.cmd, r.stdout)>> ELSE <<>>)
    ELSE <<Line("fail", NoPath, r.cmd, r.stderr)>>

\* the index of the command the loop runs after commands[k] (faulty variant:
\* a timeout leaves the loop)
NextCmdBreakOnTimeout(k, kind) == IF kind = "TimeoutExpired" THEN Len(commands) + 1 ELSE k + 1
NextCmd(k, kind) == k + 1

\* -------------------------------------------------------------------- Init
InitWith(n) ==
  /\ files \in { S \in SUBSET Universe : Cardinality(S) <= n }
  /\ files0 = files
  /\ undeletable \in { S \in SUBSET files : Cardinality(S) <= MaxUndeletable }
  /\ pc = "start"
  /\ lock_files = <<>>
  /\ i = 1
  /\ out = <<>>
  /\ fsops = <<>>
  /\ invoked = <<>>
  /\ exit_code = -1

Init == InitWith(MaxPresent)
InitLive == InitWith(MaxPresentLive)

\* ----------------------------------------------------------------- actions
\* lines 12-16: banner, then the snapshot of the recursive search (in the
\* order the directory walk happens to yield)
Start ==
  /\ pc = "start"
  /\ lock_files' \in Perms(GitDirRglob(files))
  /\ out' = Append(out, Line("banner", NoPath, NoCmd, <<>>))
  /\ i' = 1
  /\ pc' = IF lock_files' = <<>> THEN "specific" ELSE "rglob"
  /\ UNCHANGED <<files, files0, undeletable, fsops, invoked, exit_code>>

\* lines 18-23: one iteration of the loop over lock_files
UnlinkLockFile ==
  /\ pc = "rglob"
  /\ i <= Len(lock_files)
  /\ LET p == lock_files[i] IN
     LET ok == UnlinkOk(files, undeletable, p) IN
       /\ fsops' = Append(fsops, [op |-> "unlink", path |-> p, ok |-> ok])
       /\ files' = IF ok THEN Deleted(files, p) ELSE files
       /\ out' = out \o UnlinkReport(p, ok)
       /\ i' = IF NextLock(i, ok, Len(lock_files)) > Len(lock_files)
                 THEN 1 ELSE NextLock(i, ok, Len(lock_files))
       /\ pc' = IF NextLock(i, ok, Len(lock_files)) > Len(lock_files)
                  THEN "specific" ELSE "rglob"
  /\ UNCHANGED <<files0, undeletable, lock_files, invoked, exit_code>>

\* lines 33-39: one iteration of the loop over specific_locks
RemoveSpecificLock ==
  /\ pc = "specific"
  /\ i <= Len(specific_locks)
  /\ LET p == specific_locks[i]
         probe == [op |-> "exists", path |-> p, ok |-> PathExists(files, p)]
     IN
     /\ IF PathExists(files, p)
          THEN LET done == UnlinkOk(files, undeletable, p) IN
                 /\ fsops' = fsops \o <<probe, [op |-> "remove", path |-> p, ok |-> done]>>
                 /\ files' = IF done THEN Deleted(files, p) ELSE files
                 /\ out' = Append(out, IF done THEN Line("removed", p, NoCmd, <<>>)
                                               ELSE Line("could_not_remove", p, NoCmd, <<>>))
          ELSE /\ fsops' = Append(fsops, probe)
               /\ UNCHANGED <<files, out>>
     /\ i' = IF i = Len(specific_locks) THEN 1 ELSE i + 1
     /\ pc' = IF i = Len(specific_locks) THEN "commands" ELSE "specific"
  /\ UNCHANGED <<files0, undeletable, lock_files, invoked, exit_code>>

\* lines 50-62: one iteration of the loop over commands
RunCommand ==
  /\ pc = "commands"
  /\ i <= Len(commands)
  /\ \E launched \in BOOLEAN, duration \in Durations, rc \in ReturnCodes :
       LET r == Run(commands[i], launched, duration, rc) IN
       /\ invoked' = Append(invoked, r)
       /\ IF r.kind = "completed"
            THEN /\ out' = out \o Report(r)
                 /\ i' = NextCmd(i, r.kind)
                 /\ UNCHANGED <<pc, exit_code>>
          ELSE IF RunHandler(r.kind) = "timeout"
            THEN /\ out' = Append(out, Line("timeout", NoPath, r.cmd, <<>>))
                 /\ i' = NextCmd(i, r.kind)
                 /\ UNCHANGED <<pc, exit_code>>
          ELSE IF RunHandler(r.kind) = "error"
            THEN /\ out' = Append(out, Line("error", NoPath, r.cmd, <<>>))
                 /\ i' = NextCmd(i, r.kind)
                 /\ UNCHANGED <<pc, exit_code>>
          ELSE \* the exception leaves force_git_resolution: traceback, exit 1
               /\ pc' = "crashed"
               /\ exit_code' = 1
               /\ UNCHANGED <<out, i>>
  /\ UNCHANGED <<files, files0, undeletable, lock_files, fsops>>

\* lines 64-68: the closing messages; the interpreter then exits with 0
Finish ==
  /\ pc = "commands"
  /\ i > Len(commands)
  /\ out' = out \o <<Line("complete", NoPath, NoCmd, <<>>), Line("hint", NoPath, NoCmd, <<>>)>>
  /\ pc' = "done"
  /\ exit_code' = 0
  /\ UNCHANGED <<files, files0, undeletable, lock_files, i, fsops, invoked>>

Next == Start \/ UnlinkLockFile \/ RemoveSpecificLock \/ RunCommand \/ Finish

Spec == Init /\ [][Next]_vars

\* the interpreter always takes the next step of a sequential program
FairSpec == InitLive /\ [][Next]_vars /\ WF_vars(Next)

TypeOK ==
  /\ files \subseteq Universe
  /\ undeletable \subseteq files0
  /\ pc \in {"start", "rglob", "specific", "commands", "done", "crashed"}
  /\ exit_code \in {-1, 0, 1}

\* ======================================================================
\* The claims.  The paths and commands below are written out as the
\* specification names them, independently of specific_locks and commands.
\* ======================================================================
IndexLock == Path(<<".git">>, "index", "lock")
HeadLock == Path(<<".git">>, "HEAD", "lock")
ConfigLock == Path(<<".git">>, "config", "lock")
MainLock == Path(<<".git", "refs", "heads">>, "main", "lock")
DevLock == Path(<<".git", "refs", "heads">>, "dev", "lock")
WellKnownSeq == <<IndexLock, HeadLock, ConfigLock, MainLock>>
WellKnown == Range(WellKnownSeq)

StatusCmd == <<"git", "status">>
FiveCommands ==
  << <<"git", "reset", "--hard", "HEAD">>,
     <<"git", "clean", "-fd">>,
     <<"git", "fetch", "--all">>,
     <<"git", "reset", "--hard", "origin/main">>,
     StatusCmd >>

IsPrefix(s, t) == Len(s) <= Len(t) /\ SubSeq(t, 1, Len(s)) = s
InvokedCmds == [k \in 1..Len(invoked) |-> invoked[k].cmd]
IsGitLock(p) == p.ext = "lock" /\ Len(p.dir) >= 1 /\ p.dir[1] = ".git"
CleanupOver == pc \in {"commands", "done"}

\* positions of the deletion calls on p that raised an error
Raised(op, p) ==
  { k \in 1..Len(fsops) : fsops[k].op = op /\ fsops[k].path = p /\ ~fsops[k].ok }
DeletionRaised(p) == Raised("unlink", p) # {} \/ Raised("remove", p) # {}
Calls(op) == { k \in 1..Len(fsops) : fsops[k].op = op }
Lines(kinds) == { k \in 1..Len(out) : out[k].kind \in kinds }
LinesAbout(kinds, p) == { k \in Lines(kinds) : out[k].path = p }
ReportKinds == {"ok", "fail", "timeout", "error"}
RemovalKinds == {"removed_lock_file", "removed", "could_not_remove"}

\* the transcript restricted to the per-command report lines, to the printed
\* standard outputs and to the "Could not remove" lines; the deletion calls
\* that raised
IsReportLine(l) == l.kind \in ReportKinds
IsStdoutLine(l) == l.kind = "stdout"
IsCouldNotRemove(l) == l.kind = "could_not_remove"
IsRaisedCall(c) == c.op \in {"unlink", "remove"} /\ ~c.ok
Reports == SelectSeq(out, IsReportLine)
StdoutLines == SelectSeq(out, IsStdoutLine)
CouldNotRemoveLines == SelectSeq(out, IsCouldNotRemove)
RaisedCalls == SelectSeq(fsops, IsRaisedCall)

\* C1: the five commands are invoked in the fixed order, each exactly once,
\* whatever the outcome of the earlier ones: what has been invoked so far is
\* always a prefix of the list, and at the end it is the whole list.
C1_FixedOrder ==
  /\ IsPrefix(InvokedCmds, FiveCommands)
  /\ pc = "done" => InvokedCmds = FiveCommands

C1_Witness ==
  /\ pc = "done"
  /\ Len(invoked) = 5
  /\ invoked[1].kind = "TimeoutExpired"
  /\ invoked[2].kind = "Exception"
  /\ invoked[3].kind = "completed" /\ invoked[3].returncode # 0

C4_TimeoutReported ==
  LET r == Reports IN
  \A k \in 1..Len(invoked) :
    invoked[k].duration > 30 =>
      /\ Len(r) = Len(invoked)
      /\ r[k].kind = "timeout" /\ r[k].cmd = invoked[k].cmd
      /\ \A n \in 1..Len(r) : r[n].cmd = invoked[k].cmd => n = k
      /\ pc = "done" =>
           \A j \in (k + 1)..5 : Len(invoked) >= j /\ invoked[j].cmd = FiveCommands[j]

C4_Witness ==
  /\ pc = "done"
  /\ Len(invoked) = 5
  /\ invoked[2].duration > 30
  /\ invoked[3].kind = "completed"

\* C5: every run ends with the completion message and exit code 0, and no
\* error ends it early.
C5_Terminates ==
  /\ <>(/\ pc = "done"
        /\ exit_code = 0
        /\ Lines({"complete"}) = {Len(out) - 1})
  /\ [](pc # "crashed" /\ exit_code # 1)

C5_Witness ==
  /\ pc = "done"
  /\ exit_code = 0
  /\ \E p \in files0 : DeletionRaised(p)
  /\ \E k \in 1..Len(invoked) : invoked[k].kind = "Exception"
  /\ \E k \in 1..Len(invoked) : invoked[k].kind = "TimeoutExpired"
  /\ \E k \in 1..Len(invoked) : invoked[k].kind = "completed" /\ invoked[k].returncode # 0

\* C6: with exactly index.lock and refs/heads/main.lock as lock files, both
\* deletable, both are removed with exactly two "Removed" lines, and all
\* removal and its logging is over before the first command is invoked.
C6_Scenario ==
  /\ { p \in files0 : IsGitLock(p) } = {IndexLock, MainLock}
  /\ undeletable \cap {IndexLock, MainLock} = {}

C6_TwoRemovedThenCommands ==
  /\ C6_Scenario /\ CleanupOver =>
       /\ IndexLock \notin files /\ MainLock \notin files
       /\ Cardinality(Lines({"removed_lock_file", "removed"})) = 2
       /\ Cardinality(LinesAbout({"removed_lock_file", "removed"}, IndexLock)) = 1
       /\ Cardinality(LinesAbout({"removed_lock_file", "removed"}, MainLock)) = 1
  /\ invoked # <<>> =>
       /\ CleanupOver
       /\ Cardinality(Calls("exists")) = 4
       /\ \A a \in Lines(RemovalKinds), b \in Lines(ReportKinds) : a < b

C6_Witness ==
  /\ C6_Scenario
  /\ pc = "done"
  /\ Len(invoked) = 5

\* C7: a deletion that fails is logged and stops nothing: every file the
\* search found and every well-known path is still processed, and the five
\* commands still run.
C7_FailureDoesNotStop ==
  /\ LET l == CouldNotRemoveLines
         c == RaisedCalls
     IN /\ Len(l) = Len(c)
        /\ \A k \in 1..Len(c) : l[k].path = c[k].path
  /\ CleanupOver =>
       /\ { fsops[k].path : k \in Calls("unlink") } = { p \in files0 : IsGitLock(p) }
       /\ { fsops[k].path : k \in Calls("exists") } = WellKnown
  /\ pc = "done" => InvokedCmds = FiveCommands

C7_Witness ==
  /\ pc = "done"
  /\ Len(lock_files) = 2
  /\ Raised("unlink", lock_files[1]) # {}
  /\ Raised("unlink", lock_files[2]) = {}
  /\ lock_files[2] \notin files

\* C8: each command gets exactly one report line, and its kind is decided
\* by the outcome: exit code 0, another exit code (with the captured
\* standard error), a timeout, or another exception.
ExpectedKind(r) ==
  IF r.kind = "TimeoutExpired" THEN "timeout"
  ELSE IF r.kind = "Exception" THEN "error"
  ELSE IF r.returncode = 0 THEN "ok" ELSE "fail"

C8_OneReportPerOutcome ==
  LET r == Reports IN
  /\ Len(r) = Len(invoked)
  /\ \A k \in 1..Len(invoked) :
       /\ r[k].cmd = invoked[k].cmd
       /\ r[k].kind = ExpectedKind(invoked[k])
       /\ r[k].kind = "fail" => r[k].text = <<"stderr of", invoked[k].cmd>>

C8_Witness ==
  /\ pc = "done"
  /\ invoked[1].kind = "completed" /\ invoked[1].returncode = 0
  /\ invoked[2].kind = "completed" /\ invoked[2].returncode # 0
  /\ invoked[3].kind = "TimeoutExpired"
  /\ invoked[4].kind = "Exception"

\* C9 as written: the captured standard output of git status is printed
\* whenever it was captured, and that of no other command is.
C9_Original ==
  LET s == StdoutLines IN
  /\ \A k \in 1..Len(invoked) :
       invoked[k].cmd = StatusCmd /\ invoked[k].kind = "completed" => s # <<>>
  /\ \A n \in 1..Len(s) : s[n].cmd = StatusCmd

\* C9 as amended: captured standard output is printed exactly when the
\* command is git status and it exits with code 0, right after its success
\* line; no other command's standard output is printed.
C9_StdoutOnStatusSuccess ==
  LET s == StdoutLines IN
  /\ \A k \in 1..Len(invoked) :
       (invoked[k].kind = "completed" /\ invoked[k].returncode = 0
          /\ invoked[k].cmd = StatusCmd)
       <=> (\E n \in 1..Len(s) : s[n].cmd = invoked[k].cmd)
  /\ Len(s) <= 1
  /\ \A n \in 1..Len(s) : s[n].text = <<"stdout of", StatusCmd>>
  /\ s # <<>> => /\ out[Len(out)].kind \in {"stdout", "hint"}
                 /\ \A n \in 2..Len(out) :
                      out[n].kind = "stdout" =>
                        out[n - 1].kind = "ok" /\ out[n - 1].cmd = StatusCmd

C9_Witness ==
  /\ pc = "done"
  /\ invoked[1].kind = "completed" /\ invoked[1].returncode = 0
  /\ invoked[5].kind = "completed" /\ invoked[5].returncode = 0
  /\ StdoutLines # <<>>

\* C10 as written: the well-known-path step makes a deletion attempt for
\* all four paths in every run.
C10_Original ==
  CleanupOver =>
    \A p \in WellKnown : \E k \in Calls("remove") : fsops[k].path = p

\* C10 as amended: whatever the search found, the well-known-path step
\* tests each of the four paths for existence, in the listed order, and
\* attempts the deletion of exactly those that exist at that moment.
C10_ProbeAllRemoveExisting ==
  [][ pc = "specific" =>
        LET p == WellKnownSeq[i]
            n == Len(fsops)
        IN /\ Len(fsops') > n
           /\ fsops'[n + 1].op = "exists" /\ fsops'[n + 1].path = p
           /\ IF p \in files
                THEN /\ Len(fsops') = n + 2
                     /\ fsops'[n + 2].op = "remove" /\ fsops'[n + 2].path = p
                ELSE Len(fsops') = n + 1 ]_vars

C10_Witness ==
  /\ CleanupOver
  /\ IndexLock \in Range(lock_files)
  /\ \E k \in Calls("remove") : fsops[k].path = IndexLock
  /\ HeadLock \in Range(lock_files)
  /\ \A k \in Calls("remove") : fsops[k].path # HeadLock
====
